---- MODULE Spec2Model ----
(***************************************************************************)
(* Strata change-detection subsystem (src-tauri/src/lib.rs): the document  *)
(* classifier is_strata_file, the workspace scanner walk_dir /             *)
(* list_workspace_files, the write guard (mark_file_write) and the file    *)
(* watcher (start_watching, its notification callback, stop_watching).     *)
(*                                                                         *)
(* Strings are sequences of one-character strings, paths are sequences of  *)
(* components (each a string), so that starts_with, ends_with, find,       *)
(* lines, trim, strip_prefix and replace are computed, not assumed.        *)
(***************************************************************************)
EXTENDS Integers, Sequences, FiniteSets, TLC

\* ------------------------------------------------------------------ bounds

\* Commands invoked, raw notifications delivered and external file-system
\* writes, all together, in one run: when commands may overlap (ConcOps) and
\* when they are invoked one after the other (SeqOps).
ConcOps == 3
SeqOps == 4

\* Threads of the surrounding application that invoke commands.
NumCallers == 2

\* Lines of a file handed to the classifier on its own.
MaxLines == 5

\* ------------------------------------------------------------- characters

NL == "\n"
CR == "\r"
SP == " "
TAB == "\t"
DASH == "-"
DOT == "."
SLASH == "/"
BACKSLASH == "\\"

\* ---------------------------------------------------------- string helpers

\* str::starts_with
StartsWith(s, pre) ==
    /\ Len(pre) <= Len(s)
    /\ SubSeq(s, 1, Len(pre)) = pre

\* str::ends_with
EndsWith(s, suf) ==
    /\ Len(suf) <= Len(s)
    /\ SubSeq(s, Len(s) - Len(suf) + 1, Len(s)) = suf

\* s[from..] with a 0-based byte offset, as Rust slices
SliceFrom(s, from) == SubSeq(s, from + 1, Len(s))

\* s[..to] with a 0-based exclusive end
SliceTo(s, to) == SubSeq(s, 1, to)

\* str::find: the 0-based offset of the first occurrence, -1 for None
Find(hay, needle) ==
    LET hits == {i \in 0..(Len(hay) - Len(needle)) :
                    SubSeq(hay, i + 1, i + Len(needle)) = needle}
    IN  IF hits = {} THEN -1
        ELSE CHOOSE i \in hits : \A j \in hits : i <= j

\* char::is_whitespace over the characters of the model
IsWhitespace(c) == c \in {SP, TAB, NL, CR}

RECURSIVE TrimStart(_)
TrimStart(s) ==
    IF s # <<>> /\ IsWhitespace(Head(s)) THEN TrimStart(Tail(s)) ELSE s

RECURSIVE TrimEnd(_)
TrimEnd(s) ==
    IF s # <<>> /\ IsWhitespace(s[Len(s)])
    THEN TrimEnd(SubSeq(s, 1, Len(s) - 1))
    ELSE s

\* str::trim
Trim(s) == TrimEnd(TrimStart(s))

\* One line of str::lines that ended in "\n": a "\r" before it is stripped.
StripCR(l) ==
    IF l # <<>> /\ l[Len(l)] = CR THEN SubSeq(l, 1, Len(l) - 1) ELSE l

\* str::lines: split at "\n"; a final empty piece (text ending in "\n", or
\* empty text) is not a line; a final piece with no "\n" is a line as it is.
RECURSIVE Lines(_)
Lines(s) ==
    IF s = <<>> THEN <<>>
    ELSE LET nl == Find(s, <<NL>>)
         IN  IF nl = -1 THEN <<s>>
             ELSE <<StripCR(SliceTo(s, nl))>> \o Lines(SliceFrom(s, nl + 1))

\* str::replace('\\', "/")
RECURSIVE ReplaceBackslash(_)
ReplaceBackslash(s) ==
    IF s = <<>> THEN <<>>
    ELSE <<IF Head(s) = BACKSLASH THEN SLASH ELSE Head(s)>>
            \o ReplaceBackslash(Tail(s))

\* Lexicographic order of strings by character, as Ord for String orders
\* them; the characters of the model are ordered by their ASCII code.
CharCode(c) ==
    CASE c = TAB -> 9
      [] c = NL -> 10
      [] c = CR -> 13
      [] c = SP -> 32
      [] c = DASH -> 45
      [] c = DOT -> 46
      [] c = SLASH -> 47
      [] c = BACKSLASH -> 92
      [] c = "_" -> 95
      [] c = "a" -> 97
      [] c = "b" -> 98
      [] c = "c" -> 99
      [] c = "d" -> 100
      [] c = "e" -> 101
      [] c = "g" -> 103
      [] c = "h" -> 104
      [] c = "i" -> 105
      [] c = "l" -> 108
      [] c = "m" -> 109
      [] c = "n" -> 110
      [] c = "o" -> 111
      [] c = "r" -> 114
      [] c = "s" -> 115
      [] c = "t" -> 116
      [] c = "u" -> 117
      [] c = "w" -> 119
      [] c = "x" -> 120
      [] OTHER -> 127

RECURSIVE StrLess(_, _)
StrLess(a, b) ==
    IF b = <<>> THEN FALSE
    ELSE IF a = <<>> THEN TRUE
    ELSE IF CharCode(Head(a)) # CharCode(Head(b))
         THEN CharCode(Head(a)) < CharCode(Head(b))
    ELSE StrLess(Tail(a), Tail(b))

StrLeq(a, b) == a = b \/ StrLess(a, b)

\* Insertion of one string into an ascending sequence.
RECURSIVE InsertSorted(_, _)
InsertSorted(x, s) ==
    IF s = <<>> THEN <<x>>
    ELSE IF StrLeq(x, Head(s)) THEN <<x>> \o s
    ELSE <<Head(s)>> \o InsertSorted(x, Tail(s))

RECURSIVE SortFrom(_, _)
SortFrom(todo, done) ==
    IF todo = <<>> THEN done
    ELSE SortFrom(Tail(todo), InsertSorted(Head(todo), done))

\* The Vec returned as it was filled.
SortStrings_None(files) == files

\* Vec<String>::sort: ascending by Ord for String
SortStrings(files) == SortFrom(files, <<>>)

\* ------------------------------------------------------- fixed text, names

OpenLF == <<DASH, DASH, DASH, NL>>
OpenCRLF == <<DASH, DASH, DASH, CR, NL>>
CloseNeedle == <<NL, DASH, DASH, DASH>>
\* doc-type: strata
Marker == <<"d", "o", "c", DASH, "t", "y", "p", "e", ":", SP,
            "s", "t", "r", "a", "t", "a">>
\* doc-type: "strata"
MarkerQuoted == <<"d", "o", "c", DASH, "t", "y", "p", "e", ":", SP,
                  "\"", "s", "t", "r", "a", "t", "a", "\"">>
MdExt == <<DOT, "m", "d">>
NodeModules == <<"n", "o", "d", "e", "_", "m", "o", "d", "u", "l", "e", "s">>
Target == <<"t", "a", "r", "g", "e", "t">>
PyCache == <<"_", "_", "p", "y", "c", "a", "c", "h", "e", "_", "_">>

\* ------------------------------------------------------------ file system

\* A node of the file system, keyed by absolute path (a sequence of
\* components). kind is "none" (nothing there), "file" or "dir"; readable is
\* whether read_to_string (file) or read_dir (dir) succeeds on it; faulty is
\* whether the iterator read_dir returned yields an Err for an entry.
NoNode == [kind |-> "none", content |-> <<>>, readable |-> FALSE, faulty |-> FALSE]
FileNode(c) == [kind |-> "file", content |-> c, readable |-> TRUE, faulty |-> FALSE]
UnreadableFile == [kind |-> "file", content |-> <<>>, readable |-> FALSE, faulty |-> FALSE]
DirNode == [kind |-> "dir", content |-> <<>>, readable |-> TRUE, faulty |-> FALSE]
UnreadableDir == [kind |-> "dir", content |-> <<>>, readable |-> FALSE, faulty |-> FALSE]
FaultyDir == [kind |-> "dir", content |-> <<>>, readable |-> TRUE, faulty |-> TRUE]

NodeAt(fsys, path) == IF path \in DOMAIN fsys THEN fsys[path] ELSE NoNode

\* fs::read_to_string: Ok(content) for a readable file, Err otherwise
\* (missing, a directory, permission denied, invalid encoding).
read_to_string(fsys, path) ==
    LET n == NodeAt(fsys, path)
    IN  IF n.kind = "file" /\ n.readable
        THEN [ok |-> TRUE, val |-> n.content]
        ELSE [ok |-> FALSE, val |-> <<>>]

\* Path::is_dir
is_dir(fsys, path) == NodeAt(fsys, path).kind = "dir"

\* ------------------------------------------------------------- classifier

\* frontmatter.lines().any(|line| trimmed == marker || trimmed == quoted)
AnyMarkerLine(frontmatter) ==
    \E i \in 1..Len(Lines(frontmatter)) :
        LET trimmed == Trim(Lines(frontmatter)[i])
        IN  trimmed = Marker \/ trimmed = MarkerQuoted

\* is_strata_file once the content is read
IsStrataContent(content) ==
    IF ~StartsWith(content, OpenLF) /\ ~StartsWith(content, OpenCRLF)
    THEN FALSE
    ELSE LET after_first == IF StartsWith(content, OpenCRLF) THEN 5 ELSE 4
             rest == SliceFrom(content, after_first)
             end == Find(rest, CloseNeedle)
         IN  IF end # -1 THEN AnyMarkerLine(SliceTo(rest, end)) ELSE FALSE

is_strata_file(fsys, path) ==
    LET r == read_to_string(fsys, path)
    IN  IF r.ok THEN IsStrataContent(r.val) ELSE FALSE

\* ------------------------------------------------------------ skip policy

\* A skip policy of the deny-list alone.
should_skip_dir_DenyListOnly(name) ==
    \/ name = NodeModules
    \/ name = Target
    \/ name = PyCache

should_skip_dir(name) ==
    \/ StartsWith(name, <<DOT>>)
    \/ name = NodeModules
    \/ name = Target
    \/ name = PyCache

\* ------------------------------------------------------------------ paths

\* Path::file_name: the last component, None for the empty path.
file_name(path) ==
    IF path = <<>> THEN [some |-> FALSE, val |-> <<>>]
    ELSE [some |-> TRUE, val |-> path[Len(path)]]

\* Path::strip_prefix: Ok(remaining components) when base is a prefix.
strip_prefix(path, base) ==
    IF Len(base) <= Len(path) /\ SubSeq(path, 1, Len(base)) = base
    THEN [ok |-> TRUE, val |-> SubSeq(path, Len(base) + 1, Len(path))]
    ELSE [ok |-> FALSE, val |-> <<>>]

\* to_string_lossy of a relative path: its components joined by the host's
\* separator.
RECURSIVE PathString(_, _)
PathString(rel, sep) ==
    IF rel = <<>> THEN <<>>
    ELSE IF Len(rel) = 1 THEN rel[1]
    ELSE rel[1] \o <<sep>> \o PathString(Tail(rel), sep)

\* rel.to_string_lossy().replace('\\', "/")
NormalizeRel(rel, sep) == ReplaceBackslash(PathString(rel, sep))

\* The name test both the scanner and the watcher apply to a file name.
NameAccepted(name) == EndsWith(name, MdExt) /\ ~StartsWith(name, <<DOT>>)

\* A watcher that applies no skip-directory check to the relative path.
dominated_by_hidden_Never(rel) == FALSE

\* rel.components().any(|c| should_skip_dir(c))
dominated_by_hidden(rel) == \E i \in 1..Len(rel) : should_skip_dir(rel[i])

\* The watcher callback's structural filter for one path of an event: the
\* path reaches the write-guard check only if this holds.
PassesFilter(watch_dir, path) ==
    LET name == file_name(path)
        rel == strip_prefix(path, watch_dir)
    IN  /\ name.some
        /\ NameAccepted(name.val)
        /\ rel.ok
        /\ ~dominated_by_hidden(rel.val)

\* ----------------------------------------------------- the watcher's world

Ws == <<"w", "s">>
Ws2 == <<"w", "s", "2">>
A_md == <<"a", DOT, "m", "d">>

\* Workspace roots a caller passes to start_watching.
Roots == {<<Ws>>, <<Ws2>>}

\* Paths the application marks and the OS reports: a document in each root
\* and one below a skipped directory.
WatchPaths == {<<Ws, A_md>>, <<Ws, Target, A_md>>, <<Ws2, A_md>>}

\* ---\ndoc-type: strata\n---\n
StrataDoc == OpenLF \o Marker \o <<NL, DASH, DASH, DASH, NL>>
\* ---\nx\n---\n
PlainDoc == OpenLF \o <<"x", NL, DASH, DASH, DASH, NL>>

\* What an external process can leave at a path.
FileStates == {NoNode, FileNode(StrataDoc), FileNode(PlainDoc), UnreadableFile}

\* notify::EventKind: Create, Modify, Remove, and one of the kinds the
\* callback's match leaves to its default arm.
Kinds == {"Create", "Modify", "Remove", "Access"}

\* event.paths: no path, one path, or the two paths (from, to) of a rename,
\* which notify reports as one Modify event.
PathLists(kind) ==
    {<<>>} \cup {<<p>> : p \in WatchPaths}
    \cup (IF kind = "Modify"
          THEN {<<p[1], p[2]>> : p \in {q \in WatchPaths \X WatchPaths : q[1] # q[2]}}
          ELSE {})

\* What the notify crate hands to the callback: Err(_) or Ok(event).
RawResults ==
    {[ok |-> FALSE, kind |-> "Error", paths |-> <<>>]}
    \cup UNION {{[ok |-> TRUE, kind |-> k, paths |-> ps] : ps \in PathLists(k)} :
                  k \in Kinds}

Callers == 1..NumCallers

\* The callback of handle h as a lock holder.
CbId(h) == 0 - h

VARIABLES
    watcher,        \* AppState.watcher: 0 for None, else the stored handle
    watcherLock,    \* holder of the watcher Mutex, 0 when free
    write_guard,    \* AppState.write_guard: a set of paths
    guardLock,      \* holder of the write_guard Mutex, 0 when free
    handles,        \* every RecommendedWatcher made: its state and watch_dir
    call,           \* per caller thread: the command it is in and where
    cb,             \* per handle: the callback invocation in progress
    fs,             \* the file system
    scan,           \* list_workspace_files: the walk in progress and its result
    hostSep,        \* the host's path separator
    budget,         \* commands, notifications and writes still to come
    suppressed,     \* history: paths a notification of which was discarded as an echo
    emit,           \* the event handed to AppHandle::emit by this step
    ret,            \* the command result returned by this step (for a start
                    \* its root and handle, for a stop the handle it dropped),
                    \* or the closure's return on a watch error
    classified,     \* the last is_strata_file call on its own: path and result
    marks,          \* history: per path, the mark_file_write calls completed
                    \* since a notification for it last reached the guard check
    echoKinds       \* history: the kinds of the notifications discarded as echoes

vars == <<watcher, watcherLock, write_guard, guardLock, handles, call, cb, fs,
          scan, hostSep, budget, suppressed, emit, ret, classified, marks,
          echoKinds>>

\* No is_strata_file call on its own yet.
NotClassified == [done |-> FALSE, path |-> <<>>, result |-> FALSE]

\* The handles made so far, in the order of their creation.
HandleIds == DOMAIN handles

\* No list_workspace_files call yet. stack holds the walk_dir frames, files
\* the Vec being filled; listed (the directories read_dir was called on) and
\* accepted (the entries that passed the name test) are history.
IdleScan == [pc |-> "idle", base |-> <<>>, stack |-> <<>>, files |-> <<>>,
             listed |-> {}, accepted |-> {},
             result |-> [ok |-> FALSE, files |-> <<>>]]

NoEvent == [name |-> "none", relPath |-> <<>>, h |-> 0]
NoRet == [t |-> 0, op |-> "none", ok |-> FALSE, h |-> 0, root |-> <<>>]
IdleCall == [pc |-> "idle", root |-> <<>>, path |-> <<>>, h |-> 0]
IdleCb == [pc |-> "idle", kind |-> "none", paths |-> <<>>, i |-> 0]

\* A handle whose OS watch is attached and which has not been dropped.
Live == {h \in HandleIds : handles[h].st = "watching"}

\* The previous value is forgotten, its OS watch left attached.
Drop_Leak(hs, h) == hs

\* Dropping the previous value of an Option<RecommendedWatcher>.
Drop(hs, h) == IF h = 0 THEN hs ELSE [hs EXCEPT ![h].st = "dropped"]

\* run(): .manage(AppState { watcher: None, write_guard: empty })
WatcherInit(n) ==
    /\ watcher = 0
    /\ watcherLock = 0
    /\ write_guard = {}
    /\ guardLock = 0
    /\ handles = <<>>
    /\ call = [t \in Callers |-> IdleCall]
    /\ cb = <<>>
    /\ budget = n
    /\ suppressed = {}
    /\ marks = [p \in WatchPaths |-> 0]
    /\ echoKinds = {}
    /\ emit = NoEvent
    /\ ret = NoRet

Quiet == emit' = NoEvent /\ ret' = NoRet

\* ------------------------------------------------------- mark_file_write

\* The command is invoked and takes the lock: state.write_guard.lock().
\* (A thread waiting for a lock has done nothing yet; its wait is not a
\* state of its own.)

MarkCall(t, path) ==
    /\ call[t].pc = "idle"
    /\ budget > 0
    /\ budget' = budget - 1
    /\ guardLock = 0
    /\ guardLock' = t
    /\ call' = [call EXCEPT ![t] = [IdleCall EXCEPT !.pc = "m_insert", !.path = path]]
    /\ Quiet
    /\ UNCHANGED <<watcher, watcherLock, write_guard, handles, cb, fs, hostSep,
                   suppressed, scan, classified, marks, echoKinds>>

\* A registry that keeps a repeated mark as an entry of its own.
GuardInsert_Counting(g, path) ==
    IF path \in g THEN g \cup {<<path, path>>} ELSE g \cup {path}

\* HashSet::insert
GuardInsert(g, path) == g \cup {path}

\* guard.insert(path); Ok(()) -- the lock is released on return
MarkInsert(t) ==
    /\ call[t].pc = "m_insert"
    /\ guardLock = t
    /\ write_guard' = GuardInsert(write_guard, call[t].path)
    /\ guardLock' = 0
    /\ call' = [call EXCEPT ![t] = IdleCall]
    /\ emit' = NoEvent
    /\ ret' = [NoRet EXCEPT !.t = t, !.op = "mark", !.ok = TRUE]
    /\ marks' = [marks EXCEPT ![call[t].path] = @ + 1]
    /\ UNCHANGED <<watcher, watcherLock, handles, cb, fs, hostSep, budget,
                   suppressed, scan, classified, echoKinds>>

\* --------------------------------------------------------- start_watching

\* The command is invoked and takes the lock: state.watcher.lock()

StartCall(t, root) ==
    /\ call[t].pc = "idle"
    /\ budget > 0
    /\ budget' = budget - 1
    /\ watcherLock = 0
    /\ watcherLock' = t
    /\ call' = [call EXCEPT ![t] = [IdleCall EXCEPT !.pc = "s_clear", !.root = root]]
    /\ Quiet
    /\ UNCHANGED <<watcher, write_guard, guardLock, handles, cb, fs, hostSep,
                   suppressed, scan, classified, marks, echoKinds>>

\* start_watching without its teardown block: the stored watcher stays.
StartClear_NoTeardown(t) ==
    /\ call[t].pc = "s_clear"
    /\ watcherLock = t
    /\ watcherLock' = 0
    /\ call' = [call EXCEPT ![t].pc = "s_create"]
    /\ Quiet
    /\ UNCHANGED <<watcher, handles, write_guard, guardLock, cb, fs, hostSep,
                   budget, suppressed, scan, classified, marks, echoKinds>>

\* A teardown that also forgets the pending marks.
StartClear_ClearsGuard(t) ==
    /\ call[t].pc = "s_clear"
    /\ watcherLock = t
    /\ handles' = Drop(handles, watcher)
    /\ watcher' = 0
    /\ watcherLock' = 0
    /\ write_guard' = {}
    /\ call' = [call EXCEPT ![t].pc = "s_create"]
    /\ Quiet
    /\ UNCHANGED <<guardLock, cb, fs, hostSep, budget, suppressed, scan,
                   classified, marks, echoKinds>>

\* The teardown without its block: the lock is still held afterwards.
StartClear_HoldsLock(t) ==
    /\ call[t].pc = "s_clear"
    /\ watcherLock = t
    /\ handles' = Drop(handles, watcher)
    /\ watcher' = 0
    /\ call' = [call EXCEPT ![t].pc = "s_create"]
    /\ Quiet
    /\ UNCHANGED <<watcherLock, write_guard, guardLock, cb, fs, hostSep, budget,
                   suppressed, scan, classified, marks, echoKinds>>

\* *w = None; and the end of the block releases the lock
StartClear(t) ==
    /\ call[t].pc = "s_clear"
    /\ watcherLock = t
    /\ handles' = Drop(handles, watcher)
    /\ watcher' = 0
    /\ watcherLock' = 0
    /\ call' = [call EXCEPT ![t].pc = "s_create"]
    /\ Quiet
    /\ UNCHANGED <<write_guard, guardLock, cb, fs, hostSep, budget, suppressed,
                   scan, classified, marks, echoKinds>>

\* notify::recommended_watcher(closure)?: the closure captures watch_dir;
\* the new watcher has its own notification thread, idle so far.
StartCreate(t) ==
    /\ call[t].pc = "s_create"
    /\ \E ok \in BOOLEAN :
        IF ok
        THEN /\ handles' = Append(handles, [st |-> "created", root |-> call[t].root])
             /\ cb' = Append(cb, IdleCb)
             /\ call' = [call EXCEPT ![t].pc = "s_watch", ![t].h = Len(handles) + 1]
             /\ Quiet
        ELSE /\ handles' = handles
             /\ cb' = cb
             /\ call' = [call EXCEPT ![t] = IdleCall]
             /\ emit' = NoEvent
             /\ ret' = [t |-> t, op |-> "start", ok |-> FALSE, h |-> 0, root |-> call[t].root]
    /\ UNCHANGED <<watcher, watcherLock, write_guard, guardLock, fs, hostSep,
                   budget, suppressed, scan, classified, marks, echoKinds>>

\* watcher.watch(&watch_path, Recursive)?: on Err the local watcher is dropped
\* without ever having watched ("failed").
StartWatch(t) ==
    /\ call[t].pc = "s_watch"
    /\ \E ok \in BOOLEAN :
        IF ok
        THEN /\ handles' = [handles EXCEPT ![call[t].h].st = "watching"]
             /\ call' = [call EXCEPT ![t].pc = "s_lock2"]
             /\ Quiet
        ELSE /\ handles' = [handles EXCEPT ![call[t].h].st = "failed"]
             /\ call' = [call EXCEPT ![t] = IdleCall]
             /\ emit' = NoEvent
             /\ ret' = [t |-> t, op |-> "start", ok |-> FALSE, h |-> call[t].h,
                      root |-> call[t].root]
    /\ UNCHANGED <<watcher, watcherLock, write_guard, guardLock, cb, fs,
                   hostSep, budget, suppressed, scan, classified, marks, echoKinds>>

\* let mut w = state.watcher.lock()  (the second time)
StartLock2(t) ==
    /\ call[t].pc = "s_lock2"
    /\ watcherLock = 0
    /\ watcherLock' = t
    /\ call' = [call EXCEPT ![t].pc = "s_store"]
    /\ Quiet
    /\ UNCHANGED <<watcher, write_guard, guardLock, handles, cb, fs, hostSep,
                   budget, suppressed, scan, classified, marks, echoKinds>>

\* *w = Some(watcher); Ok(()) -- the value stored before is dropped
StartStore(t) ==
    /\ call[t].pc = "s_store"
    /\ watcherLock = t
    /\ handles' = Drop(handles, watcher)
    /\ watcher' = call[t].h
    /\ watcherLock' = 0
    /\ call' = [call EXCEPT ![t] = IdleCall]
    /\ emit' = NoEvent
    /\ ret' = [t |-> t, op |-> "start", ok |-> TRUE, h |-> call[t].h,
               root |-> call[t].root]
    /\ UNCHANGED <<write_guard, guardLock, cb, fs, hostSep, budget, suppressed,
                   scan, classified, marks, echoKinds>>

\* ---------------------------------------------------------- stop_watching

\* The command is invoked and takes the lock: state.watcher.lock()

StopCall(t) ==
    /\ call[t].pc = "idle"
    /\ budget > 0
    /\ budget' = budget - 1
    /\ watcherLock = 0
    /\ watcherLock' = t
    /\ call' = [call EXCEPT ![t] = [IdleCall EXCEPT !.pc = "p_clear"]]
    /\ Quiet
    /\ UNCHANGED <<watcher, write_guard, guardLock, handles, cb, fs, hostSep,
                   suppressed, scan, classified, marks, echoKinds>>

\* stop_watching that empties the slot but keeps the watcher alive.
StopClear_KeepsAlive(t) ==
    /\ call[t].pc = "p_clear"
    /\ watcherLock = t
    /\ watcher' = 0
    /\ watcherLock' = 0
    /\ call' = [call EXCEPT ![t] = IdleCall]
    /\ emit' = NoEvent
    /\ ret' = [NoRet EXCEPT !.t = t, !.op = "stop", !.ok = TRUE, !.h = watcher]
    /\ UNCHANGED <<handles, write_guard, guardLock, cb, fs, hostSep, budget,
                   suppressed, scan, classified, marks, echoKinds>>

\* *w = None; Ok(())
StopClear(t) ==
    /\ call[t].pc = "p_clear"
    /\ watcherLock = t
    /\ handles' = Drop(handles, watcher)
    /\ watcher' = 0
    /\ watcherLock' = 0
    /\ call' = [call EXCEPT ![t] = IdleCall]
    /\ emit' = NoEvent
    /\ ret' = [NoRet EXCEPT !.t = t, !.op = "stop", !.ok = TRUE, !.h = watcher]
    /\ UNCHANGED <<write_guard, guardLock, cb, fs, hostSep, budget, suppressed,
                   scan, classified, marks, echoKinds>>

\* ------------------------------------------- the watcher callback (closure)

\* The position of the `for path in &event.paths` loop after the path at
\* index i: the next path that passes the name, root and skip-directory
\* tests (the others `continue` without touching shared state), or the end.
Advance(watch_dir, kind, paths, i) ==
    LET passing == {j \in (i + 1)..Len(paths) : PassesFilter(watch_dir, paths[j])}
    IN  IF passing = {} THEN IdleCb
        ELSE [pc |-> "lock", kind |-> kind, paths |-> paths,
              i |-> CHOOSE j \in passing : \A k \in passing : j <= k]

\* A closure that takes a watch error as the end of the session: the handle
\* stops watching.
CbDeliver_ErrorEndsSession(h, res) ==
    /\ handles[h].st = "watching"
    /\ cb[h].pc = "idle"
    /\ budget > 0
    /\ budget' = budget - 1
    /\ cb' = IF res.ok
             THEN [cb EXCEPT ![h] = Advance(handles[h].root, res.kind, res.paths, 0)]
             ELSE cb
    /\ handles' = IF res.ok THEN handles ELSE [handles EXCEPT ![h].st = "dropped"]
    /\ emit' = NoEvent
    /\ ret' = IF res.ok THEN NoRet
                        ELSE [NoRet EXCEPT !.op = "notify_err", !.h = h]
    /\ UNCHANGED <<watcher, watcherLock, write_guard, guardLock, call,
                   fs, hostSep, suppressed, scan, classified, marks, echoKinds>>

\* The notify thread of a watching handle invokes the closure with a raw
\* result: Err(_) returns at once (ret shows that return), Ok(event) enters
\* the loop over its paths.
CbDeliver(h, res) ==
    /\ handles[h].st = "watching"
    /\ cb[h].pc = "idle"
    /\ budget > 0
    /\ budget' = budget - 1
    /\ cb' = IF res.ok
             THEN [cb EXCEPT ![h] = Advance(handles[h].root, res.kind, res.paths, 0)]
             ELSE cb
    /\ emit' = NoEvent
    /\ ret' = IF res.ok THEN NoRet
                        ELSE [NoRet EXCEPT !.op = "notify_err", !.h = h]
    /\ UNCHANGED <<watcher, watcherLock, write_guard, guardLock, handles, call,
                   fs, hostSep, suppressed, scan, classified, marks, echoKinds>>

\* write_guard.lock()
CbLock(h) ==
    /\ cb[h].pc = "lock"
    /\ guardLock = 0
    /\ guardLock' = CbId(h)
    /\ cb' = [cb EXCEPT ![h].pc = "consume"]
    /\ Quiet
    /\ UNCHANGED <<watcher, watcherLock, write_guard, handles, call, fs,
                   hostSep, budget, suppressed, scan, classified, marks, echoKinds>>

\* A guard that is looked up (contains) but never consumed.
GuardRemove_Keep(g, path) == g

\* HashSet::remove: the set afterwards
GuardRemove(g, path) == g \ {path}

\* A guard check made only for the kinds that can emit: a notification of
\* any other kind leaves the mark in place.
CbConsume_KindFirst(h) ==
    LET c == cb[h]
        path == c.paths[c.i]
        hit == path \in write_guard /\ c.kind \in {"Create", "Modify", "Remove"}
    IN  /\ c.pc = "consume"
        /\ guardLock = CbId(h)
        /\ write_guard' = IF hit THEN GuardRemove(write_guard, path) ELSE write_guard
        /\ guardLock' = 0
        /\ suppressed' = IF hit THEN suppressed \cup {path} ELSE suppressed
        /\ cb' = IF hit
                 THEN [cb EXCEPT ![h] = Advance(handles[h].root, c.kind, c.paths, c.i)]
                 ELSE [cb EXCEPT ![h].pc = "kind"]
        /\ marks' = IF hit THEN [marks EXCEPT ![path] = 0] ELSE marks
        /\ echoKinds' = IF hit THEN echoKinds \cup {c.kind} ELSE echoKinds
        /\ Quiet
        /\ UNCHANGED <<watcher, watcherLock, handles, call, fs, hostSep, budget,
                       scan, classified>>

\* if guard.remove(path) { continue; } -- the block's end releases the lock
CbConsume(h) ==
    LET c == cb[h]
        path == c.paths[c.i]
    IN  /\ c.pc = "consume"
        /\ guardLock = CbId(h)
        /\ write_guard' = GuardRemove(write_guard, path)
        /\ guardLock' = 0
        /\ suppressed' = IF path \in write_guard THEN suppressed \cup {path}
                                                ELSE suppressed
        /\ cb' = IF path \in write_guard
                 THEN [cb EXCEPT ![h] = Advance(handles[h].root, c.kind, c.paths, c.i)]
                 ELSE [cb EXCEPT ![h].pc = "kind"]
        /\ marks' = [marks EXCEPT ![path] = 0]
        /\ echoKinds' = IF path \in write_guard THEN echoKinds \cup {c.kind}
                                                ELSE echoKinds
        /\ Quiet
        /\ UNCHANGED <<watcher, watcherLock, handles, call, fs, hostSep, budget,
                       scan, classified>>

\* The kind branch with the classifier applied to removals as well.
EventFor_ClassifiesRemove(kind, fsys, path, relPath, h) ==
    IF ~is_strata_file(fsys, path) THEN NoEvent
    ELSE CASE kind = "Create" -> [name |-> "fs:created", relPath |-> relPath, h |-> h]
           [] kind = "Modify" -> [name |-> "fs:modified", relPath |-> relPath, h |-> h]
           [] kind = "Remove" -> [name |-> "fs:deleted", relPath |-> relPath, h |-> h]
           [] OTHER -> NoEvent

\* The kind branch without the classifier.
EventFor_NoClassify(kind, fsys, path, relPath, h) ==
    CASE kind = "Create" -> [name |-> "fs:created", relPath |-> relPath, h |-> h]
      [] kind = "Modify" -> [name |-> "fs:modified", relPath |-> relPath, h |-> h]
      [] kind = "Remove" -> [name |-> "fs:deleted", relPath |-> relPath, h |-> h]
      [] OTHER -> NoEvent

\* match event.kind { Create | Modify => classify, then emit; Remove => emit;
\* _ => {} }: the event handed to handle.emit, NoEvent for none.
EventFor(kind, fsys, path, relPath, h) ==
    CASE kind = "Create" ->
            IF is_strata_file(fsys, path)
            THEN [name |-> "fs:created", relPath |-> relPath, h |-> h]
            ELSE NoEvent
      [] kind = "Modify" ->
            IF is_strata_file(fsys, path)
            THEN [name |-> "fs:modified", relPath |-> relPath, h |-> h]
            ELSE NoEvent
      [] kind = "Remove" -> [name |-> "fs:deleted", relPath |-> relPath, h |-> h]
      [] OTHER -> NoEvent

\* A kind branch that looks at the guard again and lets a mark that came
\* after the guard check suppress the event.
CbKind_RechecksGuard(h) ==
    LET c == cb[h]
        path == c.paths[c.i]
        rel == strip_prefix(path, handles[h].root)
        rel_path == NormalizeRel(rel.val, hostSep)
    IN  /\ c.pc = "kind"
        /\ emit' = IF rel.ok /\ path \notin write_guard
                    THEN EventFor(c.kind, fs, path, rel_path, h)
                    ELSE NoEvent
        /\ write_guard' = write_guard \ {path}
        /\ ret' = NoRet
        /\ cb' = [cb EXCEPT ![h] = Advance(handles[h].root, c.kind, c.paths, c.i)]
        /\ UNCHANGED <<watcher, watcherLock, guardLock, handles, call, fs,
                       hostSep, budget, suppressed, scan, classified, marks, echoKinds>>

\* rel_path, the payload and the match on event.kind
CbKind(h) ==
    LET c == cb[h]
        path == c.paths[c.i]
        rel == strip_prefix(path, handles[h].root)
        rel_path == NormalizeRel(rel.val, hostSep)
    IN  /\ c.pc = "kind"
        /\ emit' = IF rel.ok THEN EventFor(c.kind, fs, path, rel_path, h) ELSE NoEvent
        /\ ret' = NoRet
        /\ cb' = [cb EXCEPT ![h] = Advance(handles[h].root, c.kind, c.paths, c.i)]
        /\ UNCHANGED <<watcher, watcherLock, write_guard, guardLock, handles,
                       call, fs, hostSep, budget, suppressed, scan, classified, marks, echoKinds>>

\* ------------------------------------------------------------ environment

\* Another process creates, rewrites, protects or removes a file.
FsWrite(path, node) ==
    /\ budget > 0
    /\ fs[path] # node
    /\ budget' = budget - 1
    /\ fs' = [fs EXCEPT ![path] = node]
    /\ Quiet
    /\ UNCHANGED <<watcher, watcherLock, write_guard, guardLock, handles, call,
                   cb, hostSep, suppressed, scan, classified, marks, echoKinds>>

\* ---------------------------------------------------------- specifications

\* The steps inside a command and inside the callback, and the environment.
Internal ==
    \/ \E t \in Callers :
        \/ MarkInsert(t)
        \/ StartClear(t) \/ StartCreate(t) \/ StartWatch(t)
        \/ StartLock2(t) \/ StartStore(t)
        \/ StopClear(t)
    \/ \E h \in HandleIds :
        \/ \E res \in RawResults : CbDeliver(h, res)
        \/ CbLock(h) \/ CbConsume(h) \/ CbKind(h)
    \/ \E path \in WatchPaths, node \in FileStates : FsWrite(path, node)

\* A command is invoked; it runs on the first thread that is free (the
\* threads are interchangeable).
Invoke ==
    \E t \in Callers :
        /\ \A u \in Callers : call[u].pc = "idle" => t <= u
        /\ \/ \E path \in WatchPaths : MarkCall(t, path)
           \/ \E root \in Roots : StartCall(t, root)
           \/ StopCall(t)

\* Commands may be invoked from several threads at once.
Next == Invoke \/ Internal

\* The watcher's world: a Unix host, a managed document at every path, no
\* scan running.
WatchWorld ==
    /\ fs = [p \in WatchPaths |-> FileNode(StrataDoc)]
    /\ hostSep = SLASH
    /\ scan = IdleScan
    /\ classified = NotClassified

Init == WatcherInit(ConcOps) /\ WatchWorld

Spec == Init /\ [][Next]_vars

\* Commands are invoked one after the other: the next one only once the
\* last has returned. Callbacks and other processes still run alongside.
NoCallInProgress == \A t \in Callers : call[t].pc = "idle"

SeqNext == (NoCallInProgress /\ Invoke) \/ Internal

SeqInit == WatcherInit(SeqOps) /\ WatchWorld

SeqSpec == SeqInit /\ [][SeqNext]_vars

\* ------------------------------------------------------ the scanner's world

Notes == <<"n", "o", "t", "e", "s">>
Hidden == <<DOT, "h", "i", "d", "d", "e", "n">>
B_md == <<"b", DOT, "m", "d">>
C_md == <<"c", DOT, "m", "d">>
D_md == <<"d", DOT, "m", "d">>
DotC_md == <<DOT, "c", DOT, "m", "d">>
A_txt == <<"a", DOT, "t", "x", "t">>

\* The paths of the trees scanned: /ws with a document, a hidden file and a
\* file of another extension, notes/ with a document and a hidden directory,
\* node_modules/ and a directory whose name ends with the extension.
ScanPaths ==
    {<<Ws>>, <<Ws, B_md>>, <<Ws, DotC_md>>, <<Ws, A_txt>>,
     <<Ws, Notes>>, <<Ws, Notes, A_md>>,
     <<Ws, Notes, Hidden>>, <<Ws, Notes, Hidden, B_md>>,
     <<Ws, NodeModules>>, <<Ws, NodeModules, C_md>>,
     <<Ws, D_md>>, <<Ws, D_md, A_md>>}

\* One tree: b is what is at b.md, x whether .c.md and a.txt exist, n what
\* notes is, na and nh whether notes/a.md and notes/.hidden/b.md exist, nm and
\* d whether node_modules/c.md and d.md/a.md exist.
Tree(b, x, n, na, nh, nm, d) ==
    LET doc(present) == IF present THEN FileNode(StrataDoc) ELSE NoNode
        dir(present) == IF present THEN DirNode ELSE NoNode
        inNotes == n.kind = "dir"
    IN  [p \in ScanPaths |->
            CASE p = <<Ws>> -> DirNode
              [] p = <<Ws, B_md>> -> b
              [] p = <<Ws, DotC_md>> -> doc(x)
              [] p = <<Ws, A_txt>> -> doc(x)
              [] p = <<Ws, Notes>> -> n
              [] p = <<Ws, Notes, A_md>> -> doc(inNotes /\ na)
              [] p = <<Ws, Notes, Hidden>> -> dir(inNotes /\ nh)
              [] p = <<Ws, Notes, Hidden, B_md>> -> doc(inNotes /\ nh)
              [] p = <<Ws, NodeModules>> -> dir(nm)
              [] p = <<Ws, NodeModules, C_md>> -> doc(nm)
              [] p = <<Ws, D_md>> -> dir(d)
              [] p = <<Ws, D_md, A_md>> -> doc(d)]

ScanWorlds ==
    {Tree(b, x, n, na, nh, nm, d) :
        b \in FileStates, x \in BOOLEAN,
        n \in {NoNode, DirNode, UnreadableDir, FaultyDir},
        na \in BOOLEAN, nh \in BOOLEAN, nm \in BOOLEAN, d \in BOOLEAN}

\* Roots a caller passes to list_workspace_files: the workspace, a
\* directory of it, a deny-listed directory, and a path that is a file.
ScanRoots == {<<Ws>>, <<Ws, Notes>>, <<Ws, NodeModules>>, <<Ws, B_md>>}

\* ---------------------------------------- walk_dir, list_workspace_files

\* What fs::read_dir(dir) iterates over: the entries directly in dir.
Children(fsys, dir) ==
    {p \in DOMAIN fsys :
        /\ Len(p) = Len(dir) + 1
        /\ SubSeq(p, 1, Len(dir)) = dir
        /\ fsys[p].kind # "none"}

\* The innermost walk_dir call.
Top == scan.stack[Len(scan.stack)]

\* A directory-read failure swallowed: what was collected so far is returned.
ScanFailed_Partial ==
    [scan EXCEPT !.pc = "done", !.stack = <<>>,
                 !.result = [ok |-> TRUE, files |-> SortStrings(scan.files)]]

\* An Err propagated by `?` out of every walk_dir and out of
\* list_workspace_files: the Vec is gone, the command returns Err.
ScanFailed ==
    [scan EXCEPT !.pc = "done", !.stack = <<>>, !.files = <<>>,
                 !.result = [ok |-> FALSE, files |-> <<>>]]

\* A walk_dir frame that has not called read_dir yet.
Frame(dir) == [dir |-> dir, read |-> FALSE, todo |-> {}]

ScanFrame ==
    UNCHANGED <<watcher, watcherLock, write_guard, guardLock, handles, call,
                cb, fs, hostSep, budget, suppressed, classified, marks, echoKinds>>

\* let base = PathBuf::from(&workspace); let mut files = Vec::new();
\* walk_dir(&base, &base, &mut files)
ListCall(root) ==
    /\ scan.pc = "idle"
    /\ scan' = [IdleScan EXCEPT !.pc = "walk", !.base = root,
                                !.stack = <<Frame(root)>>]
    /\ Quiet
    /\ ScanFrame

\* let entries = fs::read_dir(dir).map_err(..)?
WalkReadDir ==
    /\ scan.pc = "walk"
    /\ ~Top.read
    /\ LET n == NodeAt(fs, Top.dir)
           k == Len(scan.stack)
       IN  scan' = IF n.kind = "dir" /\ n.readable
                   THEN [scan EXCEPT !.stack[k].read = TRUE,
                                     !.stack[k].todo = Children(fs, Top.dir),
                                     !.listed = @ \cup {Top.dir}]
                   ELSE [ScanFailed EXCEPT !.listed = @ \cup {Top.dir}]
    /\ Quiet
    /\ ScanFrame

\* One turn of `for entry in entries`, the iterator yielding Ok(entry): the
\* host decides which entry comes next.
WalkEntry(path) ==
    /\ scan.pc = "walk"
    /\ Top.read
    /\ path \in Top.todo
    /\ LET k == Len(scan.stack)
           name == path[Len(path)]
           rest == [scan EXCEPT !.stack[k].todo = @ \ {path}]
           rel == strip_prefix(path, scan.base)
       IN  scan' =
             IF is_dir(fs, path)
             THEN IF ~should_skip_dir(name)
                  THEN [rest EXCEPT !.stack = Append(@, Frame(path))]
                  ELSE rest
             ELSE IF NameAccepted(name)
                  THEN IF is_strata_file(fs, path) /\ rel.ok
                       THEN [rest EXCEPT
                               !.accepted = @ \cup {path},
                               !.files = Append(@, NormalizeRel(rel.val, hostSep))]
                       ELSE [rest EXCEPT !.accepted = @ \cup {path}]
                  ELSE rest
    /\ Quiet
    /\ ScanFrame

\* One turn of the loop, the iterator yielding Err: entry.map_err(..)?
WalkEntryErr ==
    /\ scan.pc = "walk"
    /\ Top.read
    /\ Top.todo # {}
    /\ NodeAt(fs, Top.dir).faulty
    /\ scan' = ScanFailed
    /\ Quiet
    /\ ScanFrame

\* The loop is over: Ok(()) to the caller, which for the outermost call is
\* list_workspace_files: files.sort(); Ok(files)
WalkReturn ==
    /\ scan.pc = "walk"
    /\ Top.read
    /\ Top.todo = {}
    /\ scan' = IF Len(scan.stack) = 1
               THEN [scan EXCEPT !.pc = "done", !.stack = <<>>,
                                 !.result = [ok |-> TRUE,
                                             files |-> SortStrings(scan.files)]]
               ELSE [scan EXCEPT !.stack = SubSeq(@, 1, Len(@) - 1)]
    /\ Quiet
    /\ ScanFrame

ScanNext ==
    \/ \E root \in ScanRoots : ListCall(root)
    \/ WalkReadDir
    \/ \E path \in ScanPaths : WalkEntry(path)
    \/ WalkEntryErr
    \/ WalkReturn

\* Any of the trees, on a host of either separator; no watcher activity.
ScanInit ==
    /\ WatcherInit(0)
    /\ fs \in ScanWorlds
    /\ hostSep \in {SLASH, BACKSLASH}
    /\ scan = IdleScan
    /\ classified = NotClassified

ScanSpec == ScanInit /\ [][ScanNext]_vars

\* --------------------------------------------------- the classifier's world

Delim == <<DASH, DASH, DASH>>

\* The lines files are made of: the delimiter, a line that begins with the
\* delimiter and goes on, the marker, the quoted marker with whitespace
\* around it, and a line of other text.
LineAlphabet ==
    {Delim, Delim \o <<"x">>, Marker, <<TAB>> \o MarkerQuoted \o <<SP>>, <<"x">>}

\* Line terminators of the two conventions.
Terminators == {<<NL>>, <<CR, NL>>}

\* The sequences over S of length n.
SeqsOfLen(S, n) == [1..n -> S]

\* The text of a file: its lines, each followed by the terminator, the last
\* one only if the file ends with one.
RECURSIVE Join(_, _, _)
Join(lines, term, final) ==
    IF lines = <<>> THEN <<>>
    ELSE IF Len(lines) = 1
         THEN lines[1] \o (IF final THEN term ELSE <<>>)
    ELSE lines[1] \o term \o Join(Tail(lines), term, final)

Contents ==
    {Join(ls, term, final) :
        ls \in UNION {SeqsOfLen(LineAlphabet, n) : n \in 0..MaxLines},
        term \in Terminators, final \in BOOLEAN}

\* The file the classifier is called on.
ClassPath == <<Ws, A_md>>

\* is_strata_file(path), called on its own.
Classify(path) ==
    /\ ~classified.done
    /\ classified' = [done |-> TRUE, path |-> path,
                      result |-> is_strata_file(fs, path)]
    /\ Quiet
    /\ UNCHANGED <<watcher, watcherLock, write_guard, guardLock, handles, call,
                   cb, fs, scan, hostSep, budget, suppressed, marks, echoKinds>>

ClassNext == Classify(ClassPath)

\* A file of any content, an unreadable file or no file at the path; no
\* watcher and no scan.
ClassInit ==
    /\ WatcherInit(0)
    /\ fs \in {[p \in {ClassPath} |-> n] :
                  n \in {FileNode(c) : c \in Contents} \cup {UnreadableFile, NoNode}}
    /\ hostSep = SLASH
    /\ scan = IdleScan
    /\ classified = NotClassified

ClassSpec == ClassInit /\ [][ClassNext]_vars

\* ================================================================= claims

\* The workspace-relative path a consumer expects: the components below the
\* root, joined by forward slashes.
RECURSIVE SlashJoin(_)
SlashJoin(rel) ==
    IF rel = <<>> THEN <<>>
    ELSE IF Len(rel) = 1 THEN rel[1]
    ELSE rel[1] \o <<SLASH>> \o SlashJoin(Tail(rel))

ExpectedRel(path, root) == SlashJoin(SubSeq(path, Len(root) + 1, Len(path)))

\* The path the callback of handle h is working on.
CbPath(h) == cb[h].paths[cb[h].i]

\* The callback of h takes its write-guard step / its kind-branch step.
ConsumeStep(h) == cb[h].pc = "consume" /\ cb'[h] # cb[h]
KindStep(h) == cb[h].pc = "kind" /\ cb'[h] # cb[h]

\* Some command is at the point where it inserts `path` into the guard.
Marking(path) == \E t \in Callers : call[t].pc = "m_insert" /\ call[t].path = path

\* C1: write-guard entries are single-use. A marked path stays in the guard
\* until a notification for it reaches the guard check; that notification
\* removes it, emits nothing and goes no further; a path that is not in the
\* guard is not suppressed (its notification proceeds to the kind branch),
\* and only a new mark puts it back.
C1_SingleUse ==
    [][ /\ \A h \in HandleIds :
            ConsumeStep(h) =>
                /\ CbPath(h) \notin write_guard'
                /\ emit' = NoEvent
                /\ CbPath(h) \in write_guard =>
                       ~(cb'[h].pc = "kind" /\ cb'[h].i = cb[h].i)
                /\ CbPath(h) \notin write_guard =>
                       cb'[h] = [cb[h] EXCEPT !.pc = "kind"]
        /\ \A path \in WatchPaths :
            /\ (path \in write_guard /\ path \notin write_guard') =>
                   \E h \in HandleIds : ConsumeStep(h) /\ CbPath(h) = path
            /\ (path \notin write_guard /\ path \in write_guard') => Marking(path)
            /\ (Marking(path) /\ ~Marking(path)') => path \in write_guard'
      ]_vars

\* A second notification for a path is at the kind branch, the first having
\* been suppressed and the guard not holding the path again.
C1_Witness ==
    \E h \in HandleIds :
        /\ cb[h].pc = "kind"
        /\ CbPath(h) \in suppressed
        /\ CbPath(h) \notin write_guard

\* C2 as stated: once start(rootA) and then start(rootB) have returned, no
\* event of rootA's session is emitted.
C2_NoOldEventAfterRestart ==
    ~ /\ emit # NoEvent
      /\ NoCallInProgress
      /\ watcher # 0
      /\ emit.h # watcher
      /\ handles[emit.h].root = <<Ws>>
      /\ handles[watcher].root = <<Ws2>>

\* C2, amended: with commands invoked one after the other, a start creates
\* its watch only when no other handle is live (the old session is released
\* first), and when it returns successfully exactly one handle is live: the
\* stored one, rooted at the requested root.
C2_OneSessionAfterRestart ==
    /\ (\E t \in Callers : call[t].pc \in {"s_create", "s_watch"}) => Live = {}
    /\ (ret.op = "start" /\ ret.ok) =>
           /\ watcher = ret.h
           /\ Live = {ret.h}
           /\ handles[ret.h].root = ret.root
           /\ \A h \in HandleIds \ {ret.h} : handles[h].st \in {"dropped", "failed"}

\* start(ws) returned, then start(ws2) returned successfully.
C2_Witness ==
    /\ ret.op = "start" /\ ret.ok /\ ret.root = <<Ws2>>
    /\ \E h \in HandleIds : handles[h].st = "dropped" /\ handles[h].root = <<Ws>>

\* C3: at most one OS watch handle is live in every reachable state, under
\* any interleaving of start and stop calls.
C3_AtMostOneLive == Cardinality(Live) <= 1

\* C4: a start that fails returns an error and leaves no handle stored and
\* none live, whatever was active before; a start that succeeds leaves its
\* new handle stored and watching.
C4_StartOutcome ==
    /\ (ret.op = "start" /\ ~ret.ok) => (watcher = 0 /\ Live = {})
    /\ (ret.op = "start" /\ ret.ok) =>
           /\ watcher = ret.h
           /\ ret.h \in HandleIds
           /\ handles[ret.h].st = "watching"

\* A start has failed from Watching: the session that was active is gone.
C4_Witness ==
    /\ ret.op = "start" /\ ~ret.ok
    /\ \E h \in HandleIds : handles[h].st = "dropped"

\* C5: stop from Watching drops the stored handle and leaves Idle; stop from
\* Idle changes nothing; both succeed and leave the write guard as it was.
C5_Stop ==
    [][ \A t \in Callers :
            /\ (call[t].pc = "idle" /\ call'[t].pc = "p_clear") =>
                   UNCHANGED <<watcher, handles, write_guard>>
            /\ (call[t].pc = "p_clear" /\ call'[t].pc = "idle") =>
                   /\ ret'.op = "stop" /\ ret'.ok
                   /\ watcher' = 0
                   /\ Live' = {}
                   /\ write_guard' = write_guard
                   /\ watcher # 0 => handles' = [handles EXCEPT ![watcher].st = "dropped"]
                   /\ watcher = 0 => handles' = handles
      ]_vars

\* stop has returned from Watching, with a mark pending in the guard.
C5_Witness ==
    /\ ret.op = "stop"
    /\ ret.h # 0
    /\ write_guard # {}

\* C6: a Remove notification that reaches the kind branch emits exactly one
\* Deleted event carrying the relative path, whatever the file is or was.
C6_RemoveAlwaysDeleted ==
    [][ \A h \in HandleIds :
            (KindStep(h) /\ cb[h].kind = "Remove") =>
                emit' = [name |-> "fs:deleted",
                         relPath |-> ExpectedRel(CbPath(h), handles[h].root),
                         h |-> h]
      ]_vars

\* Deleted was emitted for a path where no managed document is.
C6_Witness ==
    /\ emit.name = "fs:deleted"
    /\ \E path \in WatchPaths :
        /\ ExpectedRel(path, handles[emit.h].root) = emit.relPath
        /\ strip_prefix(path, handles[emit.h].root).ok
        /\ fs[path] # FileNode(StrataDoc)

\* The file at `path` is, right now, a readable file holding a document with
\* the marker in its frontmatter.
Qualifies(path) == fs[path] = FileNode(StrataDoc)

\* C7: a Create / Modify notification that reaches the kind branch emits
\* exactly one Created / Modified event with the relative path if the file
\* qualifies at that moment, and nothing if it does not (no marker,
\* unreadable, missing).
C7_CreateModifyIffQualifies ==
    [][ \A h \in HandleIds :
            (KindStep(h) /\ cb[h].kind \in {"Create", "Modify"}) =>
                emit' = IF Qualifies(CbPath(h))
                        THEN [name |-> IF cb[h].kind = "Create" THEN "fs:created"
                                                               ELSE "fs:modified",
                              relPath |-> ExpectedRel(CbPath(h), handles[h].root),
                              h |-> h]
                        ELSE NoEvent
      ]_vars

\* An external edit of /ws/a.md, never marked, was reported: Modified{"a.md"}.
C7_Witness ==
    /\ emit.name = "fs:modified"
    /\ emit.relPath = A_md
    /\ handles[emit.h].root = <<Ws>>
    /\ suppressed = {}

\* The payload the watcher sends for `path` in a session rooted at `root`.
WatcherRel(root, path) == NormalizeRel(strip_prefix(path, root).val, hostSep)

\* In the present file-system state a Create or Modify notification for
\* `path` that reaches a watcher rooted at `root` (no mark pending) makes it
\* emit Created / Modified.
WatcherEmits(root, path) ==
    /\ PassesFilter(root, path)
    /\ EventFor("Modify", fs, path, WatcherRel(root, path), 1) # NoEvent
    /\ EventFor("Create", fs, path, WatcherRel(root, path), 1) # NoEvent

InList(r) == \E i \in 1..Len(scan.result.files) : scan.result.files[i] = r

\* Paths a notification can carry: those of the tree, one outside it, and
\* the empty path.
NotifiedPaths == ScanPaths \cup {<<Ws2, A_md>>, <<>>}

\* C8 as stated: after a scan of root, for every file p the watcher's
\* structural filter passes p exactly when the scan reached p and accepted
\* its name, and whenever the watcher emits Created or Modified for r in
\* this file-system state the list(root) taken in it contains r.
C8_FilterMatchesScan ==
    scan.pc = "done" =>
        \A p \in NotifiedPaths :
            /\ NodeAt(fs, p).kind = "file" =>
                   (PassesFilter(scan.base, p) <=> p \in scan.accepted)
            /\ WatcherEmits(scan.base, p) =>
                   scan.result.ok /\ InList(WatcherRel(scan.base, p))

\* C8, amended: when list(root) succeeds, for every file p that exists the
\* watcher's structural filter passes p exactly when the scan reached p and
\* accepted its name, and every r the watcher emits Created or Modified for
\* in this file-system state is in the list returned.
C8_FilterMatchesSuccessfulScan ==
    (scan.pc = "done" /\ scan.result.ok) =>
        \A p \in NotifiedPaths :
            /\ NodeAt(fs, p).kind = "file" =>
                   (PassesFilter(scan.base, p) <=> p \in scan.accepted)
            /\ WatcherEmits(scan.base, p) => InList(WatcherRel(scan.base, p))

\* A successful scan of a tree in which the watcher emits for one document
\* and filters out another that lies below a hidden directory.
C8_Witness ==
    /\ scan.pc = "done" /\ scan.result.ok
    /\ \E p \in ScanPaths :
        /\ WatcherEmits(scan.base, p)
        /\ InList(WatcherRel(scan.base, p))
    /\ \E q \in ScanPaths :
        /\ is_strata_file(fs, q)
        /\ strip_prefix(q, scan.base).ok
        /\ Hidden \in {q[i] : i \in 1..Len(q)}
        /\ ~PassesFilter(scan.base, q)
        /\ q \notin scan.accepted

\* A directory name the policy excludes: hidden, or on the deny-list.
SkippedName(name) ==
    \/ (name # <<>> /\ name[1] = DOT)
    \/ name \in {NodeModules, Target, PyCache}

\* The segments of a slash-separated relative path.
RECURSIVE Segments(_)
Segments(r) ==
    LET cut == Find(r, <<SLASH>>)
    IN  IF cut = -1 THEN <<r>>
        ELSE <<SliceTo(r, cut)>> \o Segments(SliceFrom(r, cut + 1))

\* The tree of the scenario: notes/a.md and notes/.hidden/b.md, both
\* qualifying, and nothing else.
NotesScenario ==
    Tree(NoNode, FALSE, DirNode, TRUE, TRUE, FALSE, FALSE)

\* C9: the scanner never calls read_dir on a directory that has, below the
\* root, a component that is hidden or deny-listed; no path of a returned
\* list has such a segment; with qualifying notes/a.md and
\* notes/.hidden/b.md the list of the workspace is exactly <<"notes/a.md">>.
C9_NeverDescendsSkipped ==
    /\ \A d \in scan.listed :
           LET rel == SubSeq(d, Len(scan.base) + 1, Len(d))
           IN  \A i \in 1..Len(rel) : ~SkippedName(rel[i])
    /\ \A i \in 1..Len(scan.result.files) :
           LET segs == Segments(scan.result.files[i])
           IN  \A j \in 1..Len(segs) : ~SkippedName(segs[j])
    /\ (scan.pc = "done" /\ scan.base = <<Ws>> /\ fs = NotesScenario) =>
           scan.result = [ok |-> TRUE, files |-> <<SlashJoin(<<Notes, A_md>>)>>]

\* The scenario's scan has returned, having read notes but not notes/.hidden.
C9_Witness ==
    /\ scan.pc = "done"
    /\ scan.base = <<Ws>>
    /\ fs = NotesScenario
    /\ <<Ws, Notes>> \in scan.listed
    /\ <<Ws, Notes, Hidden>> \notin scan.listed
    /\ scan.result.files = <<SlashJoin(<<Notes, A_md>>)>>

\* The files list(root) is to report: below root, no skipped directory on
\* the way from root, name ending with the extension and not hidden, content
\* qualifying under the classifier.
Managed(root) ==
    {p \in DOMAIN fs :
        /\ Len(p) > Len(root)
        /\ SubSeq(p, 1, Len(root)) = root
        /\ fs[p].kind = "file"
        /\ fs[p].readable
        /\ IsStrataContent(fs[p].content)
        /\ EndsWith(p[Len(p)], MdExt)
        /\ p[Len(p)][1] # DOT
        /\ \A i \in (Len(root) + 1)..(Len(p) - 1) : ~SkippedName(p[i])}

\* C10: a list returned on success holds exactly the relative paths of the
\* managed files, each once, in strictly ascending order, with no backslash,
\* whatever the order in which entries were iterated and whatever the
\* host's separator.
C10_ExactSortedList ==
    (scan.pc = "done" /\ scan.result.ok) =>
        LET out == scan.result.files
        IN  /\ {out[i] : i \in 1..Len(out)} =
                   {ExpectedRel(p, scan.base) : p \in Managed(scan.base)}
            /\ Len(out) = Cardinality(Managed(scan.base))
            /\ \A i \in 1..(Len(out) - 1) : StrLess(out[i], out[i + 1])
            /\ \A i \in 1..Len(out) : BACKSLASH \notin {out[i][j] : j \in 1..Len(out[i])}

\* On a backslash host a list of three paths was returned, two of them below
\* a directory, the entries having been met in an order that is not the
\* sorted one.
C10_Witness ==
    /\ scan.pc = "done" /\ scan.result.ok
    /\ hostSep = BACKSLASH
    /\ Len(scan.result.files) = 3
    /\ scan.files # scan.result.files
    /\ \E i \in 1..3 : SLASH \in {scan.result.files[i][j] : j \in 1..Len(scan.result.files[i])}

\* The directories a complete walk from root calls read_dir on: root, and
\* every directory below it with no skipped name on the way from root.
WalkedDirs(root) ==
    {root} \cup
    {d \in DOMAIN fs :
        /\ Len(d) > Len(root)
        /\ SubSeq(d, 1, Len(root)) = root
        /\ fs[d].kind = "dir"
        /\ \A i \in (Len(root) + 1)..Len(d) : ~SkippedName(d[i])}

Listable(d) == NodeAt(fs, d).kind = "dir" /\ NodeAt(fs, d).readable

\* C11: when a directory of the walk cannot be listed, list(root) returns an
\* error; an error carries no list of paths, whatever had been collected;
\* when every directory of the walk can be listed the scan succeeds even
\* with an unreadable file in the tree, and that file is not in the list.
C11_DirErrorAborts ==
    scan.pc = "done" =>
        /\ (\E d \in WalkedDirs(scan.base) : ~Listable(d)) => ~scan.result.ok
        /\ (\E d \in scan.listed : ~Listable(d)) => ~scan.result.ok
        /\ ~scan.result.ok => scan.result.files = <<>>
        /\ (\A d \in WalkedDirs(scan.base) : Listable(d) /\ ~NodeAt(fs, d).faulty) =>
               /\ scan.result.ok
               /\ \A p \in DOMAIN fs :
                      (fs[p] = UnreadableFile /\ strip_prefix(p, scan.base).ok) =>
                          ~InList(WatcherRel(scan.base, p))

\* A scan failed on an unlistable directory after a document had already
\* been collected, and next to an unreadable file.
C11_Witness ==
    /\ scan.pc = "done"
    /\ ~scan.result.ok
    /\ \E d \in scan.listed : ~Listable(d)
    /\ \E p \in scan.accepted : is_strata_file(fs, p)
    /\ fs[<<Ws, B_md>>] = UnreadableFile

\* The lines of a text: the pieces between line feeds, each without the
\* carriage return that preceded its line feed; what follows the last line
\* feed is a line unless it is empty.
RECURSIVE TextLines(_)
TextLines(text) ==
    IF text = <<>> THEN <<>>
    ELSE LET lf == {i \in 1..Len(text) : text[i] = NL}
         IN  IF lf = {} THEN <<text>>
             ELSE LET i == CHOOSE j \in lf : \A k \in lf : j <= k
                      piece == SubSeq(text, 1, i - 1)
                      line == IF piece # <<>> /\ piece[Len(piece)] = CR
                              THEN SubSeq(piece, 1, Len(piece) - 1)
                              ELSE piece
                  IN  <<line>> \o TextLines(SubSeq(text, i + 1, Len(text)))

\* The text begins with an opening delimiter line: `---` and a line break.
OpensWithDelimiter(text) ==
    /\ TextLines(text) # <<>>
    /\ TextLines(text)[1] = Delim
    /\ \E i \in 1..Len(text) : text[i] = NL

\* The closing delimiter lines: lines after the first that consist of `---`.
ClosingLines(text) == {k \in 2..Len(TextLines(text)) : TextLines(text)[k] = Delim}

\* A line whose trimmed text is the marker, plain or quoted.
IsMarkerLine(line) == Trim(line) \in {Marker, MarkerQuoted}

\* The marker lines of the block: after the opening line and before the
\* first closing delimiter line.
MarkerLinesInBlock(text) ==
    IF ClosingLines(text) = {} THEN {}
    ELSE LET close == CHOOSE k \in ClosingLines(text) :
                          \A j \in ClosingLines(text) : k <= j
         IN  {j \in 2..(close - 1) : IsMarkerLine(TextLines(text)[j])}

\* The text the classifier was given.
ClassifiedText == fs[classified.path].content

ClassifiedReadable ==
    /\ classified.done
    /\ fs[classified.path].kind = "file"
    /\ fs[classified.path].readable

\* C12: a content that starts with an opening delimiter line, contains a
\* closing delimiter line and has a marker line strictly between them is
\* classified true; a content with no closing delimiter line is classified
\* false whatever its body.
C12_MarkerInBlockAccepted ==
    ClassifiedReadable =>
        /\ (/\ OpensWithDelimiter(ClassifiedText)
            /\ MarkerLinesInBlock(ClassifiedText) # {}) => classified.result
        /\ ClosingLines(ClassifiedText) = {} => ~classified.result

\* C13: a content that does not begin with the opening delimiter line is
\* classified false, and so is a content whose block (from the opening line
\* to the first closing delimiter line) holds no marker line, wherever else
\* the marker occurs.
C13_MarkerOutsideRejected ==
    ClassifiedReadable =>
        /\ ~OpensWithDelimiter(ClassifiedText) => ~classified.result
        /\ (/\ OpensWithDelimiter(ClassifiedText)
            /\ ClosingLines(ClassifiedText) # {}
            /\ MarkerLinesInBlock(ClassifiedText) = {}) => ~classified.result

\* Some command completes its mark of `path` in this step.
MarkStep(path) ==
    \E t \in Callers :
        /\ call[t].pc = "m_insert"
        /\ call[t].path = path
        /\ call'[t].pc = "idle"

\* C14: mark is idempotent. A mark of P adds P to the guard and nothing
\* else; a mark of P made after another with no notification for P at the
\* guard check in between leaves the guard as the first left it; however
\* many marks were made, the first notification for P at the guard check is
\* suppressed and leaves P out of the guard, so that the next one is not
\* suppressed.
C14_MarkIdempotent ==
    [][ /\ \A path \in WatchPaths :
            /\ MarkStep(path) =>
                   /\ write_guard' = write_guard \cup {path}
                   /\ marks[path] >= 1 => write_guard' = write_guard
            /\ (path \in write_guard' <=> marks'[path] >= 1)
        /\ \A h \in HandleIds :
            (ConsumeStep(h) /\ marks[CbPath(h)] >= 1) =>
                /\ CbPath(h) \in suppressed'
                /\ CbPath(h) \notin write_guard'
                /\ marks'[CbPath(h)] = 0
                /\ emit' = NoEvent
      ]_vars

\* A path was marked twice and a notification for it is at the guard check.
C14_Witness ==
    \E h \in HandleIds :
        /\ cb[h].pc = "consume"
        /\ marks[CbPath(h)] = 2
        /\ write_guard = {CbPath(h)}

\* C15: suppression depends on the order of mark and guard check. A
\* notification for P is suppressed at the guard check only if a mark of P
\* was completed before it; one whose guard check came first goes on to the
\* kind branch and emits there when the file qualifies, whether or not a
\* mark of P has arrived meanwhile; that late mark stays in the guard until
\* a later notification for P reaches the guard check.
C15_OrderDecidesSuppression ==
    [][ /\ \A h \in HandleIds :
            /\ ConsumeStep(h) =>
                   IF marks[CbPath(h)] >= 1
                   THEN cb'[h] = Advance(handles[h].root, cb[h].kind, cb[h].paths, cb[h].i)
                        /\ emit' = NoEvent
                   ELSE cb'[h] = [cb[h] EXCEPT !.pc = "kind"]
            /\ KindStep(h) =>
                   /\ write_guard' = write_guard
                   /\ (cb[h].kind \in {"Create", "Modify"} /\ Qualifies(CbPath(h))) =>
                          emit'.name \in {"fs:created", "fs:modified"}
        /\ \A path \in WatchPaths :
            (path \in write_guard /\ path \notin write_guard') =>
                \E h \in HandleIds : ConsumeStep(h) /\ CbPath(h) = path
      ]_vars

\* A notification passed the guard check before the mark of its path was
\* completed: the event is emitted and the mark is still in the guard.
C15_Witness ==
    /\ emit.name = "fs:modified"
    /\ \E path \in WatchPaths :
        /\ strip_prefix(path, handles[emit.h].root).ok
        /\ ExpectedRel(path, handles[emit.h].root) = emit.relPath
        /\ path \in write_guard
        /\ marks[path] = 1
    /\ suppressed = {}

\* C16: stop takes effect at once, whatever else is running: in the state
\* in which a stop call returns, no watch handle is stored and none is
\* live, also when a start call was in progress while stop ran.
C16_StopImmediate ==
    ret.op = "stop" => (watcher = 0 /\ Live = {})

\* The steps by which a command or a callback invocation that has begun
\* goes on.
Progress ==
    \/ \E t \in Callers :
        \/ MarkInsert(t)
        \/ StartClear(t) \/ StartCreate(t) \/ StartWatch(t)
        \/ StartLock2(t) \/ StartStore(t)
        \/ StopClear(t)
    \/ \E h \in HandleIds : CbLock(h) \/ CbConsume(h) \/ CbKind(h)

\* Some command or callback invocation is waiting for a lock that is held.
SomeoneWaits ==
    \/ \E t \in Callers : call[t].pc = "s_lock2" /\ watcherLock # 0
    \/ \E h \in HandleIds : cb[h].pc = "lock" /\ guardLock # 0

\* C17: a thread that is creating the watcher or attaching the OS watch
\* holds no lock; a callback that is at the classifier read holds no lock;
\* each lock is held exactly within the short section that took it; nobody
\* holds both locks; and whenever somebody waits for a lock some step of a
\* command or callback in progress can be taken (no deadlock).
C17_LockDiscipline ==
    /\ \A t \in Callers :
        /\ call[t].pc \in {"s_create", "s_watch"} =>
               (watcherLock # t /\ guardLock # t)
        /\ watcherLock = t <=> call[t].pc \in {"s_clear", "s_store", "p_clear"}
        /\ guardLock = t <=> call[t].pc = "m_insert"
    /\ \A h \in HandleIds :
        /\ cb[h].pc = "kind" => (guardLock # CbId(h) /\ watcherLock # CbId(h))
        /\ guardLock = CbId(h) <=> cb[h].pc = "consume"
        /\ watcherLock # CbId(h)
    /\ ~(watcherLock # 0 /\ watcherLock = guardLock)
    /\ SomeoneWaits => ENABLED Progress

\* A callback is at the classifier read while a command holds the guard lock.
C17_Witness ==
    \E h \in HandleIds :
        /\ cb[h].pc = "kind"
        /\ guardLock \in Callers

\* C18: a raw notification that carries a watch error is dropped. The step
\* emits nothing and leaves the write guard, the stored session and every
\* handle as they were; afterwards the handle is still watching with its
\* callback free, so that any raw notification can be delivered to it and
\* goes through the pipeline.
C18_ErrorNotificationDropped ==
    /\ [](ret.op = "notify_err" =>
            /\ emit = NoEvent
            /\ handles[ret.h].st = "watching"
            /\ cb[ret.h] = IdleCb
            /\ budget > 0 => \A res \in RawResults : ENABLED CbDeliver(ret.h, res))
    /\ [][ ret'.op = "notify_err" =>
               UNCHANGED <<write_guard, watcher, handles, cb, marks, suppressed>>
         ]_vars

\* An error notification was dropped in the stored session, a mark pending.
C18_Witness ==
    /\ ret.op = "notify_err"
    /\ watcher = ret.h
    /\ write_guard # {}
    /\ budget > 0

\* C19: the guard is consumed before the kind is looked at. A notification
\* of any kind (Create, Modify, Remove or another, such as Access) for a
\* marked path that reaches the guard check takes the path out of the guard,
\* emits nothing and does not reach the kind branch; a notification for a
\* path that is not marked does reach it, whatever used up the mark.
C19_GuardBeforeKind ==
    [][ \A h \in HandleIds :
            ConsumeStep(h) =>
                /\ cb[h].kind \in Kinds
                /\ write_guard' = write_guard \ {CbPath(h)}
                /\ emit' = NoEvent
                /\ IF CbPath(h) \in write_guard
                   THEN /\ echoKinds' = echoKinds \cup {cb[h].kind}
                        /\ \/ cb'[h].pc # "kind"
                           \/ cb'[h].i > cb[h].i
                   ELSE /\ echoKinds' = echoKinds
                        /\ cb'[h].pc = "kind"
                        /\ cb'[h].i = cb[h].i
      ]_vars

\* An Access notification used up the mark of a path; the Modify
\* notification that followed was processed as external and emitted.
C19_Witness ==
    /\ echoKinds = {"Access"}
    /\ emit.name = "fs:modified"
    /\ \E path \in suppressed :
        /\ strip_prefix(path, handles[emit.h].root).ok
        /\ ExpectedRel(path, handles[emit.h].root) = emit.relPath

\* C20: the write guard changes only when a mark inserts its path and when
\* a notification that passed the name, root and skip-directory tests
\* reaches the guard check and removes its path. Every other step (of start,
\* of stop, an error notification, a notification dropped by the tests)
\* leaves it as it is, and a marked path that passes the tests under no root
\* stays in the guard for good.
C20_GuardFrame ==
    [][ /\ write_guard' # write_guard =>
              \/ \E path \in WatchPaths :
                    MarkStep(path) /\ write_guard' = write_guard \cup {path}
              \/ \E h \in HandleIds :
                    /\ ConsumeStep(h)
                    /\ PassesFilter(handles[h].root, CbPath(h))
                    /\ write_guard' = write_guard \ {CbPath(h)}
        /\ \A path \in write_guard :
              (\A root \in Roots : ~PassesFilter(root, path)) => path \in write_guard'
      ]_vars

\* A mark, then a session, then a second start that tore the first session
\* down: the second session is running and the mark is still in the guard.
C20_Witness ==
    /\ ret.op = "start" /\ ret.ok /\ ret.h = 2
    /\ handles[1].st = "dropped"
    /\ write_guard # {}
    /\ budget = SeqOps - 3

====
